---------------------------- MODULE Spec2Model ----------------------------
(***************************************************************************)
(* Ultimate tic-tac-toe engine (midmit/stoctopus): the bit-board of        *)
(* src/src/game.rs, the MCTS arena of src/src/mcts.rs and the Engine       *)
(* facade of src/src/lib.rs.                                               *)
(*                                                                         *)
(* Representation.  A u128 / u16 bit set is modelled as the set of the     *)
(* positions of its 1 bits: | is \cup, & is \cap, a shift moves the        *)
(* positions.  A u8 move is a number in 0..255.                            *)
(***************************************************************************)
EXTENDS Integers, Sequences, FiniteSets, TLC

(***************************************************************************)
(* Bounds of the model.                                                    *)
(***************************************************************************)
\* plies of tree expansion (every legal move tried) before a rollout starts
MaxDepth == 1
\* number of seeds the random source of a rollout is started from
NumSeeds == 2
\* largest iteration count passed to Engine::analyze
MaxIters == 2
\* number of calls of Engine::analyze in one run
MaxAnalyses == 1
\* rounds after which the model gives up on a rollout
RolloutCap == 128
\* rounds of the loop of MCTSArena::analyze taken on one pool
MaxRounds == 3
\* children of a node whose rollouts are taken task by task
MaxTasks == 5
\* moves a caller of unchecked_play makes after the scripted position
MaxUnchecked == 1

(***************************************************************************)
(* game.rs                                                                 *)
(***************************************************************************)
Player == {"X", "O"}

other(p) == IF p = "O" THEN "X" ELSE "O"

Won(p) == [state |-> "Won", player |-> p]
Draw == [state |-> "Draw", player |-> "-"]
InProgress == [state |-> "InProgress", player |-> "-"]

\* Option<u8>::None of Board.last_move
None == -1

\* Board::default(): all fields zero, next_player X, last_move None
DefaultBoard ==
    [x |-> {}, o |-> {}, gx |-> {}, go |-> {}, next_player |-> "X", last_move |-> None]

\* the eight three-in-a-row masks, as sets of bit positions
WIN_MASKS ==
    { {6, 7, 8}, {3, 4, 5}, {0, 1, 2},
      {2, 5, 8}, {1, 4, 7}, {0, 3, 6},
      {0, 4, 8}, {2, 4, 6} }

\* (splat(bits) & WIN_MASKS).simd_eq(WIN_MASKS).any()
AnyWinMask(bits) == \E m \in WIN_MASKS : (bits \cap m) = m

\* 0b111_111_111
Full9 == 0 .. 8

\* 0x1ffffffffffffffffffff: the low 81 bits
AllCells == 0 .. 80

\* (bits >> n) & 0b111_111_111
Sub9(bits, n) == {i \in Full9 : (i + n) \in bits}

\* a | b on u8
RECURSIVE BitOr8(_, _, _)
BitOr8(a, b, n) ==
    IF n = 0 THEN 0
    ELSE (IF a % 2 = 1 \/ b % 2 = 1 THEN 1 ELSE 0) + 2 * BitOr8(a \div 2, b \div 2, n - 1)

\* (global << 4) | local on u8: the bits shifted past bit 7 are dropped
move_from_gl(global, local) == BitOr8((global * 16) % 256, local, 8)

move_from_index(index) == move_from_gl(index \div 9, index % 9)

check_board_state(b, global) ==
    LET xbits == Sub9(b.x, global * 9)
        obits == Sub9(b.o, global * 9)
    IN  IF AnyWinMask(xbits) THEN Won("X")
        ELSE IF AnyWinMask(obits) THEN Won("O")
        ELSE IF (xbits \cup obits) = Full9 THEN Draw
        ELSE InProgress

\* update_board_state with the draw arm marking gx only
update_board_state_draw_gx(b, global) ==
    LET xbits == Sub9(b.x, global * 9)
        obits == Sub9(b.o, global * 9)
    IN  IF AnyWinMask(xbits) THEN [b EXCEPT !.gx = @ \cup {global}]
        ELSE IF AnyWinMask(obits) THEN [b EXCEPT !.go = @ \cup {global}]
        ELSE IF (xbits \cup obits) = Full9 THEN [b EXCEPT !.gx = @ \cup {global}]
        ELSE b

\* the board after update_board_state(global): only gx / go change
update_board_state(b, global) ==
    LET xbits == Sub9(b.x, global * 9)
        obits == Sub9(b.o, global * 9)
    IN  IF AnyWinMask(xbits) THEN [b EXCEPT !.gx = @ \cup {global}]
        ELSE IF AnyWinMask(obits) THEN [b EXCEPT !.go = @ \cup {global}]
        ELSE IF (xbits \cup obits) = Full9
             THEN [b EXCEPT !.gx = @ \cup {global}, !.go = @ \cup {global}]
        ELSE b

\* check_game_state with the drawn sub-boards left in gx and go
check_game_state_with_drawn(b) ==
    IF AnyWinMask(b.gx) THEN Won("X")
    ELSE IF AnyWinMask(b.go) THEN Won("O")
    ELSE IF (b.gx \cup b.go) = Full9 THEN Draw
    ELSE InProgress

check_game_state(b) ==
    LET drawn_boards == b.gx \cap b.go
    IN  IF AnyWinMask(b.gx \ drawn_boards) THEN Won("X")
        ELSE IF AnyWinMask(b.go \ drawn_boards) THEN Won("O")
        ELSE IF (b.gx \cup b.go) = Full9 THEN Draw
        ELSE InProgress

\* game_over that takes only a win for the end of the game
game_over_won(b) == check_game_state(b) \in {Won("X"), Won("O")}

game_over(b) == check_game_state(b) # InProgress

\* an unchecked_play that refuses a cell that is taken
unchecked_play_checked(b, m) ==
    IF ((m \div 16) % 16) * 9 + (m % 16) \in (b.x \cup b.o) THEN b
    ELSE LET placed == IF b.next_player = "X"
                       THEN [b EXCEPT !.x = @ \cup {((m \div 16) % 16) * 9 + (m % 16)}]
                       ELSE [b EXCEPT !.o = @ \cup {((m \div 16) % 16) * 9 + (m % 16)}]
         IN  [update_board_state(placed, (m \div 16) % 16)
                 EXCEPT !.last_move = m, !.next_player = other(b.next_player)]

unchecked_play(b, m) ==
    LET local == m % 16
        global == (m \div 16) % 16
        bit == global * 9 + local
        placed == IF b.next_player = "X"
                  THEN [b EXCEPT !.x = @ \cup {bit}]
                  ELSE [b EXCEPT !.o = @ \cup {bit}]
        updated == update_board_state(placed, global)
    IN  [updated EXCEPT !.last_move = m, !.next_player = other(b.next_player)]

\* the loop of global_board_mask after its first n rounds (i = 0 .. n-1)
RECURSIVE MaskRounds(_, _)
MaskRounds(b, n) ==
    IF n = 0 THEN {}
    ELSE LET shifted == {p + 9 : p \in MaskRounds(b, n - 1)}
         IN  IF (8 - (n - 1)) \in (b.gx \cup b.go)
             THEN shifted \cup Full9
             ELSE shifted

global_board_mask(b) == MaskRounds(b, 9)

\* get_moves without global_board_mask in the arm of a decided sub-board
get_moves_unmasked(b) ==
    IF b.last_move = None THEN AllCells
    ELSE LET local == b.last_move % 16
         IN  IF check_board_state(b, local) # InProgress
             THEN AllCells \ (b.x \cup b.o)
             ELSE ({9 * local + i : i \in Full9} \cap AllCells) \ (b.x \cup b.o)

\* get_moves that clears the cells of x only
get_moves_x_only(b) ==
    IF b.last_move = None THEN AllCells
    ELSE LET local == b.last_move % 16
         IN  IF check_board_state(b, local) # InProgress
             THEN AllCells \ (b.x \cup global_board_mask(b))
             ELSE ({9 * local + i : i \in Full9} \cap AllCells) \ b.x

\* get_moves that offers the target sub-board only, decided or not
get_moves_target_only(b) ==
    IF b.last_move = None THEN AllCells
    ELSE ({9 * (b.last_move % 16) + i : i \in Full9} \cap AllCells) \ (b.x \cup b.o)

get_moves(b) ==
    IF b.last_move = None THEN AllCells
    ELSE LET local == b.last_move % 16
         IN  IF check_board_state(b, local) # InProgress
             THEN AllCells \ (b.x \cup b.o \cup global_board_mask(b))
             ELSE ({9 * local + i : i \in Full9} \cap AllCells) \ (b.x \cup b.o)

(***************************************************************************)
(* mcts.rs: the rollout                                                    *)
(***************************************************************************)
\* find_kth_high_bit_index: the k-th (from 0) set bit among bits 0..80, or None
find_kth_high_bit_index(n, k) ==
    LET hits == {i \in n \cap AllCells : Cardinality({j \in n \cap AllCells : j < i}) = k}
    IN  IF hits = {} THEN None ELSE CHOOSE i \in hits : TRUE

\* rand::thread_rng(): a generator whose stream is fixed by its seed
NextRand(r) == (r * 75 + 74) % 65537

\* gen_range(0..num_moves) on the generator state r
gen_range(r, num_moves) == r % num_moves

Seeds == 1 .. NumSeeds

\* one round of the while loop of simulate: gen_range panics on an empty
\* range, expect("Precalculated") on None
SimRound(b, r) ==
    LET moves == get_moves(b)
        num_moves == Cardinality(moves)
        r2 == NextRand(r)
        move_index == find_kth_high_bit_index(moves, gen_range(r2, num_moves))
    IN  IF num_moves = 0 THEN [panic |-> TRUE, board |-> b, rng |-> r]
        ELSE IF move_index = None THEN [panic |-> TRUE, board |-> b, rng |-> r2]
        ELSE [panic |-> FALSE,
              board |-> unchecked_play(b, move_from_index(move_index)),
              rng |-> r2]

\* the while loop of simulate, at most n rounds of it (halving keeps the
\* evaluation shallow; the rounds run in order)
RECURSIVE SimRounds(_, _)
SimRounds(st, n) ==
    IF st.panic \/ game_over(st.board) THEN st
    ELSE IF n <= 1 THEN SimRound(st.board, st.rng)
    ELSE SimRounds(SimRounds(st, n \div 2), n - (n \div 2))

\* simulate on a clone of the node's board, from generator state r.  A
\* rollout still running after RolloutCap rounds is reported like a panic.
SimulateEnd(end) ==
    IF end.panic \/ ~game_over(end.board)
    THEN [panic |-> TRUE, state |-> InProgress, rng |-> end.rng]
    ELSE [panic |-> FALSE, state |-> check_game_state(end.board), rng |-> end.rng]

simulate(b, r) == SimulateEnd(SimRounds([panic |-> FALSE, board |-> b, rng |-> r], RolloutCap))

(***************************************************************************)
(* mcts.rs: the arena.  NodeId(i) is the number i; nodes is the Vec, so    *)
(* NodeId(i) resolves to nodes[i + 1].  Option<Vec<NodeId>> is a record.   *)
(* wins is an f32: the model keeps the whole wins in wins and the number   *)
(* of 1e-8 draw increments in eps.                                         *)
(***************************************************************************)
NoChildren == [is_some |-> FALSE, list |-> <<>>]

SomeChildren(l) == [is_some |-> TRUE, list |-> l]

MCTSNode(b, parent) ==
    [board |-> b, wins |-> 0, eps |-> 0, visits |-> 0, parent |-> parent, children |-> NoChildren]

\* MCTSArena::init
ArenaInit == << MCTSNode(DefaultBoard, None) >>

\* MCTSArena::from
ArenaFrom(b) == << MCTSNode(b, None) >>

root == 0

InArena(ns, id) == id \in 0 .. (Len(ns) - 1)

resolve(ns, id) == ns[id + 1]

\* round(ln(n) * 10^4) for n = 1 .. 256
LnE4 ==
    << 0,  6931, 10986, 13863, 16094, 17918, 19459, 20794,
       21972, 23026, 23979, 24849, 25649, 26391, 27081, 27726,
       28332, 28904, 29444, 29957, 30445, 30910, 31355, 31781,
       32189, 32581, 32958, 33322, 33673, 34012, 34340, 34657,
       34965, 35264, 35553, 35835, 36109, 36376, 36636, 36889,
       37136, 37377, 37612, 37842, 38067, 38286, 38501, 38712,
       38918, 39120, 39318, 39512, 39703, 39890, 40073, 40254,
       40431, 40604, 40775, 40943, 41109, 41271, 41431, 41589,
       41744, 41897, 42047, 42195, 42341, 42485, 42627, 42767,
       42905, 43041, 43175, 43307, 43438, 43567, 43694, 43820,
       43944, 44067, 44188, 44308, 44427, 44543, 44659, 44773,
       44886, 44998, 45109, 45218, 45326, 45433, 45539, 45643,
       45747, 45850, 45951, 46052, 46151, 46250, 46347, 46444,
       46540, 46634, 46728, 46821, 46913, 47005, 47095, 47185,
       47274, 47362, 47449, 47536, 47622, 47707, 47791, 47875,
       47958, 48040, 48122, 48203, 48283, 48363, 48442, 48520,
       48598, 48675, 48752, 48828, 48903, 48978, 49053, 49127,
       49200, 49273, 49345, 49416, 49488, 49558, 49628, 49698,
       49767, 49836, 49904, 49972, 50039, 50106, 50173, 50239,
       50304, 50370, 50434, 50499, 50562, 50626, 50689, 50752,
       50814, 50876, 50938, 50999, 51059, 51120, 51180, 51240,
       51299, 51358, 51417, 51475, 51533, 51591, 51648, 51705,
       51761, 51818, 51874, 51930, 51985, 52040, 52095, 52149,
       52204, 52257, 52311, 52364, 52417, 52470, 52523, 52575,
       52627, 52679, 52730, 52781, 52832, 52883, 52933, 52983,
       53033, 53083, 53132, 53181, 53230, 53279, 53327, 53375,
       53423, 53471, 53519, 53566, 53613, 53660, 53706, 53753,
       53799, 53845, 53891, 53936, 53982, 54027, 54072, 54116,
       54161, 54205, 54250, 54293, 54337, 54381, 54424, 54467,
       54510, 54553, 54596, 54638, 54681, 54723, 54765, 54806,
       54848, 54889, 54931, 54972, 55013, 55053, 55094, 55134,
       55175, 55215, 55255, 55294, 55334, 55373, 55413, 55452 >>

\* the integer square root, by bisection on lo .. hi
RECURSIVE SqrtBetween(_, _, _)
SqrtBetween(n, lo, hi) ==
    IF lo >= hi THEN lo
    ELSE LET mid == (lo + hi + 1) \div 2
         IN  IF mid * mid <= n THEN SqrtBetween(n, mid, hi) ELSE SqrtBetween(n, lo, mid - 1)

ISqrt(n) == SqrtBetween(n, 0, 46340)

\* child.wins / child.visits + c * (node.visits.ln() / child.visits).sqrt(),
\* c = sqrt 2, in units of 10^-4.  With zero visits of the child or of the
\* node the f32 value is NaN, which no comparison finds greater: -1 here.
\* The 1e-8 of a draw is below the f32 resolution of the sum.
Uct(child, node) ==
    IF child.visits = 0 \/ node.visits = 0 THEN -1
    ELSE (child.wins * 10000) \div child.visits
            + ISqrt((2 * LnE4[node.visits] * 10000) \div child.visits)

\* the body of the for loop of select for index i, on (max_uct, max_uct_index)
UctStep(st, ns, node, children, i) ==
    LET uct == Uct(resolve(ns, children[i + 1]), node)
    IN  IF uct > st.max_uct THEN [max_uct |-> uct, max_uct_index |-> i] ELSE st

\* the for loop of select for i = lo .. hi, in order: the first half, then
\* the second on what the first left (max_uct_index is never negative)
RECURSIVE UctLoop(_, _, _, _, _, _)
UctLoop(st, ns, node, children, lo, hi) ==
    IF lo > hi \/ st.max_uct_index < 0 THEN st
    ELSE IF lo = hi THEN UctStep(st, ns, node, children, lo)
    ELSE UctLoop(UctLoop(st, ns, node, children, lo, (lo + hi) \div 2),
                 ns, node, children, ((lo + hi) \div 2) + 1, hi)

\* a select without the game_over test of its while loop
RECURSIVE select_no_game_over(_, _)
select_no_game_over(ns, id) ==
    IF ~resolve(ns, id).children.is_some THEN [kind |-> "Expand", id |-> id]
    ELSE IF Len(resolve(ns, id).children.list) = 0 THEN [kind |-> "Hang", id |-> id]
    ELSE select_no_game_over(
             ns, resolve(ns, id).children.list[
                     UctLoop([max_uct |-> 0, max_uct_index |-> 0], ns, resolve(ns, id),
                             resolve(ns, id).children.list, 0,
                             Len(resolve(ns, id).children.list) - 1)
                         .max_uct_index + 1])

\* select: BestNode::Expand(id) or BestNode::NodeId(id).  With an empty
\* children list the while loop would never leave the node: "Hang".
RECURSIVE select(_, _)
select(ns, id) ==
    LET node == resolve(ns, id)
    IN  IF game_over(node.board) THEN [kind |-> "NodeId", id |-> id]
        ELSE IF ~node.children.is_some THEN [kind |-> "Expand", id |-> id]
        ELSE IF Len(node.children.list) = 0 THEN [kind |-> "Hang", id |-> id]
        ELSE select(ns, node.children.list[
                        UctLoop([max_uct |-> 0, max_uct_index |-> 0], ns, node,
                                node.children.list, 0, Len(node.children.list) - 1)
                            .max_uct_index + 1])

\* a loop body of expand that puts the new handle in front of the others
ExpandStepFront(st, id, moves, i) ==
    IF i \in moves
    THEN [nodes |-> Append(st.nodes,
                           MCTSNode(unchecked_play(resolve(st.nodes, id).board,
                                                   move_from_index(i)), id)),
          children |-> <<Len(st.nodes)>> \o st.children]
    ELSE st

\* a loop body of expand that records the root as the parent of the new node
ExpandStepUnderRoot(st, id, moves, i) ==
    IF i \in moves
    THEN [nodes |-> Append(st.nodes,
                           MCTSNode(unchecked_play(resolve(st.nodes, id).board,
                                                   move_from_index(i)), root)),
          children |-> Append(st.children, Len(st.nodes))]
    ELSE st

\* the body of the for loop of expand for bit i, on the Vec and the handles
\* collected so far
ExpandStep(st, id, moves, i) ==
    IF i \in moves
    THEN LET b == unchecked_play(resolve(st.nodes, id).board, move_from_index(i))
             pushed == Append(st.nodes, MCTSNode(b, id))
         IN  [nodes |-> pushed, children |-> Append(st.children, Len(pushed) - 1)]
    ELSE st

\* the for loop of expand for i = lo .. hi, in order: the first half, then
\* the second on what the first left (the Vec is never empty)
RECURSIVE ExpandLoop(_, _, _, _, _)
ExpandLoop(st, id, moves, lo, hi) ==
    IF lo > hi \/ Len(st.nodes) = 0 THEN st
    ELSE IF lo = hi THEN ExpandStep(st, id, moves, lo)
    ELSE ExpandLoop(ExpandLoop(st, id, moves, lo, (lo + hi) \div 2),
                    id, moves, ((lo + hi) \div 2) + 1, hi)

expand(ns, id) ==
    LET done == ExpandLoop([nodes |-> ns, children |-> <<>>], id,
                           get_moves(resolve(ns, id).board), 0, 80)
    IN  [done.nodes EXCEPT ![id + 1].children = SomeChildren(done.children)]

\* the pair (child_id, simulate(child_id)) joins the results collected so far
Collect(st, child_id, sim) ==
    IF sim.panic THEN [st EXCEPT !.panic = TRUE, !.rng = sim.rng]
    ELSE [panic |-> FALSE,
          results |-> Append(st.results, [id |-> child_id, state |-> sim.state]),
          rng |-> sim.rng]

\* the rollout of child number j
SimulateStep1(st, ns, children, j) ==
    IF st.panic THEN st
    ELSE Collect(st, children[j], simulate(resolve(ns, children[j]).board, st.rng))

\* children.par_iter().map(simulate).collect_into_vec(): one rollout per
\* child, the results in the order of the children; the rollouts draw from
\* one generator, one after the other (one worker thread)
RECURSIVE SimulateAll(_, _, _, _, _)
SimulateAll(st, ns, children, lo, hi) ==
    IF lo > hi \/ st.panic THEN st
    ELSE IF lo = hi THEN SimulateStep1(st, ns, children, lo)
    ELSE SimulateAll(SimulateAll(st, ns, children, lo, (lo + hi) \div 2),
                     ns, children, ((lo + hi) \div 2) + 1, hi)

\* backpropagate of one pair that counts the visit at the node and does not
\* walk to its parent
BackpropagateNodeOnly(ns, id, state, player) ==
    [ns EXCEPT ![id + 1] =
        IF state = Draw THEN [@ EXCEPT !.eps = @ + 1, !.visits = @ + 1]
        ELSE IF state = Won(player) THEN [@ EXCEPT !.wins = @ + 1, !.visits = @ + 1]
        ELSE [@ EXCEPT !.visits = @ + 1]]

\* backpropagate of one pair that counts a win where the winner is the
\* player on move at the node it is counting at
RECURSIVE BackpropagateOwnPlayer(_, _, _, _)
BackpropagateOwnPlayer(ns, id, state, player) ==
    LET node == resolve(ns, id)
        bumped == IF state = Draw
                  THEN [node EXCEPT !.eps = @ + 1, !.visits = @ + 1]
                  ELSE IF state = Won(node.board.next_player)
                  THEN [node EXCEPT !.wins = @ + 1, !.visits = @ + 1]
                  ELSE [node EXCEPT !.visits = @ + 1]
        ns2 == [ns EXCEPT ![id + 1] = bumped]
    IN  IF node.parent = None THEN ns2
        ELSE BackpropagateOwnPlayer(ns2, node.parent, state, player)

\* backpropagate, one pair: the walk from id through the parent links
RECURSIVE BackpropagateOne(_, _, _, _)
BackpropagateOne(ns, id, state, player) ==
    LET node == resolve(ns, id)
        bumped == IF state = Draw
                  THEN [node EXCEPT !.eps = @ + 1, !.visits = @ + 1]
                  ELSE IF state = Won(player)
                  THEN [node EXCEPT !.wins = @ + 1, !.visits = @ + 1]
                  ELSE [node EXCEPT !.visits = @ + 1]
        ns2 == [ns EXCEPT ![id + 1] = bumped]
    IN  IF node.parent = None THEN ns2
        ELSE BackpropagateOne(ns2, node.parent, state, player)

\* the body of the for loop of backpropagate for results[j]; InProgress is
\* unreachable!()
BackpropagateStep(st, results, j, player) ==
    IF st.panic THEN st
    ELSE IF results[j].state = InProgress THEN [st EXCEPT !.panic = TRUE]
    ELSE [panic |-> FALSE,
          nodes |-> BackpropagateOne(st.nodes, results[j].id, results[j].state, player)]

\* the for loop of backpropagate for results[lo .. hi], in order
RECURSIVE BackpropagateLoop(_, _, _, _, _)
BackpropagateLoop(st, results, player, lo, hi) ==
    IF lo > hi \/ st.panic THEN st
    ELSE IF lo = hi THEN BackpropagateStep(st, results, lo, player)
    ELSE BackpropagateLoop(BackpropagateLoop(st, results, player, lo, (lo + hi) \div 2),
                           results, player, ((lo + hi) \div 2) + 1, hi)

\* a backpropagate that leaves out the first pair
backpropagate_but_first(ns, results, player) ==
    BackpropagateLoop([panic |-> FALSE, nodes |-> ns], results, player, 2, Len(results))

backpropagate(ns, results, player) ==
    BackpropagateLoop([panic |-> FALSE, nodes |-> ns], results, player, 1, Len(results))

\* the loop body of select_best_child that raises max_uct and leaves
\* max_uct_index at 0
BestStepIndex0(st, ns, children, i) ==
    IF resolve(ns, children[i + 1]).visits > st.max_uct
    THEN [st EXCEPT !.max_uct = resolve(ns, children[i + 1]).visits]
    ELSE st

\* the body of the for loop of select_best_child for index i
BestStep(st, ns, children, i) ==
    LET uct == resolve(ns, children[i + 1]).visits
    IN  IF uct > st.max_uct THEN [max_uct |-> uct, max_uct_index |-> i] ELSE st

\* the for loop of select_best_child for i = lo .. hi, in order: the first
\* half, then the second on what the first left
RECURSIVE BestLoop(_, _, _, _, _)
BestLoop(st, ns, children, lo, hi) ==
    IF lo > hi \/ st.max_uct_index < 0 THEN st
    ELSE IF lo = hi THEN BestStep(st, ns, children, lo)
    ELSE BestLoop(BestLoop(st, ns, children, lo, (lo + hi) \div 2),
                  ns, children, ((lo + hi) \div 2) + 1, hi)

\* a select_best_child that answers the node itself, not one of its children
select_best_child_self(ns, id) == [panic |-> FALSE, id |-> id]

\* select_best_child: expect("Node is terminal") panics on children = None;
\* with an empty list the loop does not run and id itself is returned
select_best_child(ns, id) ==
    LET node == resolve(ns, id)
    IN  IF ~node.children.is_some THEN [panic |-> TRUE, id |-> id]
        ELSE IF Len(node.children.list) = 0 THEN [panic |-> FALSE, id |-> id]
        ELSE [panic |-> FALSE,
              id |-> node.children.list[
                         BestLoop([max_uct |-> 0, max_uct_index |-> 0], ns,
                                  node.children.list, 0, Len(node.children.list) - 1)
                             .max_uct_index + 1]]

\* analyze, after backpropagate: n_iters -= 1
Backpropagated(back, results, r) ==
    [err |-> IF back.panic THEN "panic: unreachable" ELSE "none",
     nodes |-> back.nodes, results |-> results, rng |-> r]

\* analyze, the Expand arm after collect_into_vec: simulation_results is
\* cleared and holds this round's pairs
Collected(expanded, sims, player, simulation_results) ==
    IF sims.panic
    THEN [err |-> "panic: simulate", nodes |-> expanded,
          results |-> simulation_results, rng |-> sims.rng]
    ELSE Backpropagated(backpropagate(expanded, sims.results, player),
                        sims.results, sims.rng)

\* analyze, the Expand arm after expand(to_expand_id)
Expanded(expanded, to_expand_id, player, simulation_results, r) ==
    Collected(expanded,
              SimulateAll([panic |-> FALSE, results |-> <<>>, rng |-> r], expanded,
                          resolve(expanded, to_expand_id).children.list,
                          1, Len(resolve(expanded, to_expand_id).children.list)),
              player, simulation_results)

\* analyze, the NodeId arm: the pair is pushed onto simulation_results,
\* which nothing has cleared
Pushed(ns, pushed, player, r) ==
    Backpropagated(backpropagate(ns, pushed, player), pushed, r)

\* analyze, the match on what select returned
Selected(ns, id, sel, simulation_results, r) ==
    IF sel.kind = "Hang"
    THEN [err |-> "hang", nodes |-> ns, results |-> simulation_results, rng |-> r]
    ELSE IF sel.kind = "Expand"
    THEN Expanded(expand(ns, sel.id), sel.id, resolve(ns, id).board.next_player,
                  simulation_results, r)
    ELSE Pushed(ns,
                Append(simulation_results,
                       [id |-> sel.id,
                        state |-> check_game_state(resolve(ns, sel.id).board)]),
                resolve(ns, id).board.next_player, r)

\* one round of the while loop of analyze; simulation_results is the Vec
\* declared before the loop, cleared only by collect_into_vec
AnalyzeRound(ns, id, simulation_results, r) ==
    Selected(ns, id, select(ns, id), simulation_results, r)

\* the while loop of analyze, n_iters rounds from st
RECURSIVE AnalyzeLoop(_, _, _)
AnalyzeLoop(st, id, n_iters) ==
    IF n_iters = 0 \/ st.err # "none" THEN st
    ELSE AnalyzeLoop(AnalyzeRound(st.nodes, id, st.results, st.rng), id, n_iters - 1)

\* analyze, after the loop: select_best_child
AnalyzeEnd(looped, id) ==
    IF looped.err # "none"
    THEN [err |-> looped.err, nodes |-> looped.nodes, rng |-> looped.rng, best |-> None]
    ELSE LET best == select_best_child(looped.nodes, id)
         IN  IF best.panic
             THEN [err |-> "panic: Node is terminal", nodes |-> looped.nodes,
                   rng |-> looped.rng, best |-> None]
             ELSE [err |-> "none", nodes |-> looped.nodes, rng |-> looped.rng,
                   best |-> best.id]

\* MCTSArena::analyze: the loop, then select_best_child; best is the NodeId
\* returned (the confidence is not modelled)
analyze(ns, id, n_iters, r) ==
    AnalyzeEnd(AnalyzeLoop([err |-> "none", nodes |-> ns, results |-> <<>>, rng |-> r],
                           id, n_iters),
               id)

(***************************************************************************)
(* lib.rs: the Engine                                                      *)
(***************************************************************************)
\* the match loop of Engine::play over the children of the current node
PlayMatch(ns, current, mve) ==
    LET m == BitOr8((mve[1] * 16) % 256, mve[2], 8)
        list == resolve(ns, current).children.list
        hits == {j \in 1 .. Len(list) :
                    /\ resolve(ns, list[j]).board.last_move # None
                    /\ resolve(ns, list[j]).board.last_move = m}
    IN  IF hits = {} THEN [ret |-> "Err(IllegalMove)", current |-> current]
        ELSE [ret |-> "Ok", current |-> list[CHOOSE j \in hits : \A h \in hits : j <= h]]

NoAnalysis == [ran |-> FALSE, node |-> 0, n |-> 0, best |-> None]

\* Engine::play down to the call that finds children: the else arm runs
\* analyze(current_node, 1) and calls play(mve) again.  analysis records the
\* last call of MCTSArena::analyze made on the way.
RECURSIVE PlayDescend(_, _, _, _)
RECURSIVE Analyzed(_, _)
Analyzed(inner, current) ==
    IF inner.err # "none"
    THEN [ret |-> inner.err, nodes |-> inner.nodes, rng |-> inner.rng,
          analysis |-> [ran |-> TRUE, node |-> current, n |-> 1, best |-> inner.best]]
    ELSE PlayDescend(inner.nodes, current, inner.rng,
                     [ran |-> TRUE, node |-> current, n |-> 1, best |-> inner.best])

PlayDescend(ns, current, r, analysis) ==
    IF ~InArena(ns, current)
    THEN [ret |-> "panic: index out of bounds", nodes |-> ns, rng |-> r,
          analysis |-> analysis]
    ELSE IF resolve(ns, current).children.is_some
    THEN [ret |-> "children", nodes |-> ns, rng |-> r, analysis |-> analysis]
    ELSE Analyzed(analyze(ns, current, 1, r), current)

\* Engine::play: the outcome, the arena, the current node and the generator
\* after the call, from the call that found children
PlayReturn(found, current, mve) ==
    IF found.ret # "children"
    THEN [ret |-> found.ret, nodes |-> found.nodes, current |-> current,
          rng |-> found.rng, analysis |-> found.analysis]
    ELSE LET matched == PlayMatch(found.nodes, current, mve)
         IN  [ret |-> matched.ret, nodes |-> found.nodes, current |-> matched.current,
              rng |-> found.rng, analysis |-> found.analysis]

play(ns, current, mve, r, analysis) ==
    PlayReturn(PlayDescend(ns, current, r, analysis), current, mve)

(***************************************************************************)
(* The callers of the Engine.  A game is fed to play move by move          *)
(* (GameScript, X winning sub-boards 0, 4 and 8).  At any point the caller *)
(* may also try the moves of Probes, or call analyze; with analyze or step *)
(* it leaves the script and goes on with Probes only.                      *)
(***************************************************************************)
GameScript ==
    << <<0, 0>>, <<0, 4>>, <<4, 0>>, <<0, 8>>, <<8, 1>>, <<1, 0>>, <<0, 1>>, <<1, 4>>,
       <<4, 1>>, <<1, 8>>, <<8, 2>>, <<2, 0>>, <<0, 2>>, <<2, 4>>, <<4, 2>>, <<2, 8>>,
       <<8, 0>> >>

Probes == {<<4, 4>>}

\* script_at when the caller no longer follows GameScript
OffScript == Len(GameScript) + 1

VARIABLES
    \* the rollout machine
    board, pc, depth, rng, sim_start, plies, result,
    \* the Engine: its arena and current_node; err is "none" until a panic
    nodes, current_node, err,
    \* the Evaluation the caller holds, with the pool that issued its handle
    \* and the board the handle stood for
    evaluation,
    \* history: the number of the pool the Engine holds, the pool that issued
    \* current_node, the board of the game position, the last call
    arena_id, current_pool, position, last,
    \* the caller: where it is in GameScript, how often it called analyze
    script_at, analyses,
    \* the n_iters a self-play caller passes to analyze in every round
    \* (0 for the other callers)
    self_play_iters,
    \* the Vec simulation_results of a call of MCTSArena::analyze that is
    \* taken round by round (empty for the calls taken as one step)
    simulation_results,
    \* the parallel rollouts of the round in progress, when a round is taken
    \* task by task
    par

simVars == <<board, pc, depth, sim_start, plies, result>>

engineVars ==
    <<nodes, current_node, err, evaluation, arena_id, current_pool, position, last,
      script_at, analyses, self_play_iters, simulation_results, par>>

vars == <<simVars, rng, engineVars>>

NoEvaluation == [valid |-> FALSE, best_move |-> 0, pool |-> 0, board |-> DefaultBoard]

\* no round is in progress
ParIdle ==
    [phase |-> "idle", start |-> [nodes |-> <<>>, results |-> <<>>, rng |-> 0],
     children |-> <<>>, seeds |-> <<>>, task |-> <<>>, snapshot |-> <<>>, slot |-> <<>>]

InitCall ==
    [op |-> "init", n |-> 0, mve |-> <<0, 0>>, ret |-> "Ok", resolved |-> TRUE,
     synced |-> TRUE, pre_node |-> 0, pre_len |-> 1, pre_board |-> DefaultBoard,
     analysis |-> NoAnalysis]

SimIdle ==
    /\ board = DefaultBoard
    /\ depth = 0
    /\ sim_start = DefaultBoard
    /\ plies = 0
    /\ result = InProgress

\* Engine::init
EngineInit ==
    /\ nodes = ArenaInit
    /\ current_node = root
    /\ err = "none"
    /\ evaluation = NoEvaluation
    /\ arena_id = 0
    /\ current_pool = 0
    /\ position = DefaultBoard
    /\ last = InitCall
    /\ script_at = 0
    /\ analyses = 0

\* the rollout machine alone
SimInit ==
    /\ SimIdle
    /\ pc = "tree"
    /\ rng = 0
    /\ EngineInit
    /\ self_play_iters = 0
    /\ simulation_results = <<>>
    /\ par = ParIdle

\* the Engine after Engine::init(), the generator in any of its seeds
Init ==
    /\ SimIdle
    /\ pc = "engine"
    /\ rng \in Seeds
    /\ EngineInit
    /\ self_play_iters = 0
    /\ simulation_results = <<>>
    /\ par = ParIdle

\* expand: one child per set bit of get_moves, reached only through the
\* !game_over test of select
ExpandChild(i) ==
    /\ pc = "tree"
    /\ depth < MaxDepth
    /\ ~game_over(board)
    /\ i \in get_moves(board)
    /\ board' = unchecked_play(board, move_from_index(i))
    /\ depth' = depth + 1
    /\ UNCHANGED <<pc, rng, sim_start, plies, result, engineVars>>

\* simulate: clone the node's board
SimulateBegin(seed) ==
    /\ pc = "tree"
    /\ pc' = "simulate"
    /\ sim_start' = board
    /\ rng' = seed
    /\ plies' = 0
    /\ UNCHANGED <<board, depth, result, engineVars>>

\* simulate: one round of the while loop
SimulateStep ==
    /\ pc = "simulate"
    /\ ~game_over(board)
    /\ LET round == SimRound(board, rng)
       IN  IF round.panic
           THEN /\ pc' = "panic"
                /\ UNCHANGED <<board, rng, plies>>
           ELSE /\ board' = round.board
                /\ rng' = round.rng
                /\ plies' = plies + 1
                /\ pc' = pc
    /\ UNCHANGED <<depth, sim_start, result, engineVars>>

\* simulate: the loop ends, the terminal state is returned
SimulateReturn ==
    /\ pc = "simulate"
    /\ game_over(board)
    /\ result' = check_game_state(board)
    /\ pc' = "returned"
    /\ UNCHANGED <<board, depth, rng, sim_start, plies, engineVars>>

SimNext ==
    \/ \E i \in AllCells : ExpandChild(i)
    \/ \E seed \in Seeds : SimulateBegin(seed)
    \/ SimulateStep
    \/ SimulateReturn

SpecSim == SimInit /\ [][SimNext]_vars

\* play on from get_moves with no game_over test, until no cell is offered
PlayOn ==
    /\ pc \in {"returned", "beyond"}
    /\ get_moves(board) # {}
    /\ LET round == SimRound(board, rng)
       IN  /\ ~round.panic
           /\ board' = round.board
           /\ rng' = round.rng
    /\ pc' = "beyond"
    /\ UNCHANGED <<depth, sim_start, plies, result, engineVars>>

FreeNext == SimNext \/ PlayOn

SpecFree == SimInit /\ [][FreeNext]_vars

(***************************************************************************)
(* The Engine's operations                                                 *)
(***************************************************************************)
\* current_node stands, in the pool the Engine holds, for the game position
Synced ==
    /\ InArena(nodes, current_node)
    /\ resolve(nodes, current_node).board = position
    /\ (current_pool = arena_id \/ current_node = root)

\* the record of a call: what was asked, what came back, and the Engine the
\* call found
Call(op, n, mve, ret, analysis) ==
    [op |-> op, n |-> n, mve |-> mve, ret |-> ret,
     resolved |-> InArena(nodes, current_node),
     synced |-> Synced,
     pre_node |-> current_node,
     pre_len |-> Len(nodes),
     pre_board |-> IF InArena(nodes, current_node)
                   THEN resolve(nodes, current_node).board
                   ELSE DefaultBoard,
     analysis |-> analysis]

\* Engine::analyze(n_iters): a fresh arena from the board current_node
\* resolves to, then MCTSArena::analyze on its root; current_node is not
\* assigned
EngineAnalyze(n_iters) ==
    /\ pc = "engine"
    /\ err = "none"
    /\ analyses < MaxAnalyses
    /\ analyses' = analyses + 1
    /\ IF ~InArena(nodes, current_node)
       THEN /\ err' = "panic: index out of bounds"
            /\ last' = Call("analyze", n_iters, <<0, 0>>, "panic: index out of bounds",
                            NoAnalysis)
            /\ UNCHANGED <<nodes, rng, evaluation, arena_id>>
       ELSE \E done \in {analyze(ArenaFrom(resolve(nodes, current_node).board),
                                   root, n_iters, rng)} :
                /\ nodes' = done.nodes
                /\ rng' = done.rng
                /\ err' = done.err
                /\ arena_id' = arena_id + 1
                /\ evaluation' =
                       IF done.err = "none"
                       THEN [valid |-> TRUE, best_move |-> done.best,
                             pool |-> arena_id + 1,
                             board |-> resolve(done.nodes, done.best).board]
                       ELSE evaluation
                /\ last' = Call("analyze", n_iters, <<0, 0>>,
                                IF done.err = "none" THEN "Ok" ELSE done.err,
                                [ran |-> TRUE, node |-> root, n |-> n_iters,
                                 best |-> done.best])
    /\ script_at' = OffScript
    /\ UNCHANGED <<current_node, current_pool, position, self_play_iters,
                   simulation_results, par, simVars>>

\* Engine::step(move), with the best_move of the Evaluation the caller holds;
\* the caller steps once with an Evaluation
EngineStep ==
    /\ pc = "engine"
    /\ err = "none"
    /\ evaluation.valid
    /\ current_node' = evaluation.best_move
    /\ current_pool' = evaluation.pool
    /\ position' = evaluation.board
    /\ script_at' = OffScript
    /\ last' = Call("step", 0, <<0, 0>>, "Ok", NoAnalysis)
    /\ evaluation' = NoEvaluation
    /\ UNCHANGED <<nodes, rng, err, arena_id, analyses, self_play_iters,
                   simulation_results, par, simVars>>

PlayInputs ==
    Probes \cup (IF script_at \in 0 .. (Len(GameScript) - 1)
                 THEN {GameScript[script_at + 1]}
                 ELSE {})

\* Engine::play(mve), for the moves of inputs
EnginePlayOf(inputs) ==
    /\ pc = "engine"
    /\ err = "none"
    /\ \E found \in {PlayDescend(nodes, current_node, rng, NoAnalysis)} :
       \E mve \in inputs :
       \E done \in {PlayReturn(found, current_node, mve)} :
           /\ nodes' = done.nodes
           /\ rng' = done.rng
           /\ current_node' = done.current
           /\ err' = IF done.ret \in {"Ok", "Err(IllegalMove)"} THEN "none" ELSE done.ret
           /\ current_pool' = IF done.ret = "Ok" THEN arena_id ELSE current_pool
           /\ position' = IF done.ret = "Ok"
                          THEN resolve(done.nodes, done.current).board
                          ELSE position
           /\ script_at' =
                  IF done.ret # "Ok" THEN script_at
                  ELSE IF script_at \in 0 .. (Len(GameScript) - 1)
                          /\ mve = GameScript[script_at + 1]
                       THEN script_at + 1
                       ELSE OffScript
           /\ last' = Call("play", 0, mve, done.ret, done.analysis)
    /\ UNCHANGED <<evaluation, arena_id, analyses, self_play_iters,
                   simulation_results, par, simVars>>

\* Engine::play(mve), for the moves the caller may try here
EnginePlay == EnginePlayOf(PlayInputs)

Next ==
    \/ \E n_iters \in 0 .. MaxIters : EngineAnalyze(n_iters)
    \/ EngineStep
    \/ EnginePlay

Spec == Init /\ [][Next]_vars

(***************************************************************************)
(* A caller of Engine::play that also passes pairs of u8 outside 0..8.     *)
(***************************************************************************)
\* pairs (sub, cell) of u8 with sub or cell outside 0..8
WideProbes == {<<16, 0>>, <<0, 20>>, <<16, 20>>, <<9, 9>>, <<4, 12>>, <<255, 255>>}

\* Engine::play(mve) for the next scripted move, a probe or a wide pair
EnginePlayWide == EnginePlayOf(PlayInputs \cup WideProbes)

SpecWide == Init /\ [][EnginePlayWide]_vars

(***************************************************************************)
(* unchecked_play called directly: a caller plays the moves of GameScript  *)
(* on a Board and then any (sub, cell), legal or not.                      *)
(***************************************************************************)
UncheckedInit ==
    /\ SimIdle
    /\ pc = "unchecked"
    /\ rng = 0
    /\ EngineInit
    /\ self_play_iters = 0
    /\ simulation_results = <<>>
    /\ par = ParIdle

\* the next move of GameScript
ScriptedPlay ==
    /\ pc \in {"unchecked", "position"}
    /\ depth = 0
    /\ script_at < Len(GameScript)
    /\ board' = unchecked_play(board, move_from_gl(GameScript[script_at + 1][1],
                                                   GameScript[script_at + 1][2]))
    /\ sim_start' = board
    /\ script_at' = script_at + 1
    /\ UNCHANGED <<pc, depth, rng, plies, result, nodes, current_node, err, evaluation,
                   arena_id, current_pool, position, last, analyses, self_play_iters,
                   simulation_results, par>>

\* board.unchecked_play(move_from_gl(sub, cell)); sim_start keeps the Board
\* the call was made on
UncheckedPlay(sub, cell) ==
    /\ pc = "unchecked"
    /\ depth < MaxUnchecked
    /\ board' = unchecked_play(board, move_from_gl(sub, cell))
    /\ sim_start' = board
    /\ depth' = depth + 1
    /\ UNCHANGED <<pc, rng, plies, result, engineVars>>

UncheckedNext ==
    \/ ScriptedPlay
    \/ \E sub \in 0 .. 8 : \E cell \in 0 .. 8 : UncheckedPlay(sub, cell)

SpecUnchecked == UncheckedInit /\ [][UncheckedNext]_vars

(***************************************************************************)
(* MCTSArena::analyze round by round.  A pool is built from a position of  *)
(* the scripted game; analyze is called on the current node, its loop is   *)
(* taken one round at a time, and after a call the caller may step to the  *)
(* node the call returned, as Engine::play and test_engine do.             *)
(***************************************************************************)
PoolInit ==
    /\ SimIdle
    /\ pc = "position"
    /\ rng = 0
    /\ EngineInit
    /\ self_play_iters = 0
    /\ simulation_results = <<>>
    /\ par = ParIdle

\* MCTSArena::from(board), the generator in any of its seeds
PoolFrom(seed) ==
    /\ pc = "position"
    /\ pc' = "pool"
    /\ nodes' = ArenaFrom(board)
    /\ current_node' = root
    /\ rng' = seed
    /\ position' = board
    /\ arena_id' = arena_id + 1
    /\ current_pool' = arena_id + 1
    /\ last' = Call("from", 0, <<0, 0>>, "Ok", NoAnalysis)
    /\ UNCHANGED <<err, evaluation, script_at, analyses, self_play_iters,
                   simulation_results, par, board, depth, sim_start, plies, result>>

\* analyze(current_node, n_iters) is called: let mut simulation_results =
\* Vec::new()
PoolAnalyzeBegin ==
    /\ pc = "pool"
    /\ err = "none"
    /\ pc' = "analyze"
    /\ simulation_results' = <<>>
    /\ evaluation' = NoEvaluation
    /\ last' = Call("analyze", 0, <<0, 0>>, "Ok", NoAnalysis)
    /\ UNCHANGED <<nodes, current_node, rng, err, arena_id, current_pool, position,
                   script_at, analyses, self_play_iters, par, board, depth, sim_start,
                   plies, result>>

\* one round of the while loop: select, then expand and the rollouts or the
\* push of the terminal node's pair, then backpropagate
PoolIteration ==
    /\ pc = "analyze"
    /\ err = "none"
    /\ analyses < MaxRounds
    /\ \E done \in {AnalyzeRound(nodes, current_node, simulation_results, rng)} :
           /\ nodes' = done.nodes
           /\ simulation_results' = done.results
           /\ rng' = done.rng
           /\ err' = done.err
    /\ analyses' = analyses + 1
    /\ last' = Call("iteration", 1, <<0, 0>>, "Ok", NoAnalysis)
    /\ UNCHANGED <<current_node, evaluation, arena_id, current_pool, position, script_at,
                   self_play_iters, par, simVars>>

\* the loop ends: select_best_child, and the Vec is dropped
PoolAnalyzeEnd ==
    /\ pc = "analyze"
    /\ err = "none"
    /\ pc' = "pool"
    /\ simulation_results' = <<>>
    /\ \E best \in {select_best_child(nodes, current_node)} :
           /\ err' = IF best.panic THEN "panic: Node is terminal" ELSE "none"
           /\ evaluation' =
                  IF best.panic THEN NoEvaluation
                  ELSE [valid |-> TRUE, best_move |-> best.id, pool |-> arena_id,
                        board |-> resolve(nodes, best.id).board]
           /\ last' = Call("return", 0, <<0, 0>>,
                           IF best.panic THEN "panic: Node is terminal" ELSE "Ok",
                           NoAnalysis)
    /\ UNCHANGED <<nodes, current_node, rng, arena_id, current_pool, position, script_at,
                   analyses, self_play_iters, par, board, depth, sim_start, plies, result>>

\* step(best) on the pool that issued the handle
PoolStep ==
    /\ pc = "pool"
    /\ err = "none"
    /\ evaluation.valid
    /\ current_node' = evaluation.best_move
    /\ position' = evaluation.board
    /\ evaluation' = NoEvaluation
    /\ last' = Call("step", 0, <<0, 0>>, "Ok", NoAnalysis)
    /\ UNCHANGED <<nodes, rng, err, arena_id, current_pool, script_at, analyses,
                   self_play_iters, simulation_results, par, pc, board, depth, sim_start,
                   plies, result>>

PoolNext ==
    \/ ScriptedPlay
    \/ \E seed \in Seeds : PoolFrom(seed)
    \/ PoolAnalyzeBegin
    \/ PoolIteration
    \/ PoolAnalyzeEnd
    \/ PoolStep

SpecPool == PoolInit /\ [][PoolNext]_vars

(***************************************************************************)
(* One round of analyze task by task.  children.par_iter().map(simulate)   *)
(* runs one task per child, in any order and overlapping; a task clones    *)
(* the board of its child and plays its rollout on the clone;              *)
(* collect_into_vec empties the Vec, waits for all tasks and holds their   *)
(* pairs in the order of the children.  The random numbers a task draws    *)
(* are fixed when the round starts (seeds): task j gets the generator in   *)
(* the state that the rollouts of the tasks before it, run one after the   *)
(* other, leave.  Nodes with more than MaxTasks children, and rounds that  *)
(* end at a terminal node, are taken as one step.                          *)
(***************************************************************************)
\* the generator states before the rollouts of children[j ..], and after the
\* last one
RECURSIVE TaskSeeds(_, _, _, _)
TaskSeeds(ns, children, j, r) ==
    IF j > Len(children) THEN <<r>>
    ELSE <<r>> \o TaskSeeds(ns, children, j + 1,
                            simulate(resolve(ns, children[j]).board, r).rng)

\* a join that is content with one pair
JoinedAny(p) == \E j \in 1 .. Len(p.task) : p.task[j] = "returned"

\* collect_into_vec has all its pairs
Joined(p) == \A j \in 1 .. Len(p.task) : p.task[j] = "returned"

\* select returns Expand(to_expand_id); expand; the tasks are created
ParExpand ==
    /\ pc = "analyze"
    /\ err = "none"
    /\ par.phase = "idle"
    /\ analyses < MaxRounds
    /\ \E sel \in {select(nodes, current_node)} :
           /\ sel.kind = "Expand"
           /\ Cardinality(get_moves(resolve(nodes, sel.id).board)) <= MaxTasks
           /\ \E ex \in {expand(nodes, sel.id)} :
              \E children \in {resolve(ex, sel.id).children.list} :
                  /\ nodes' = ex
                  /\ par' = [phase |-> "tasks",
                             start |-> [nodes |-> nodes, results |-> simulation_results,
                                        rng |-> rng],
                             children |-> children,
                             seeds |-> TaskSeeds(ex, children, 1, rng),
                             task |-> [j \in 1 .. Len(children) |-> "waiting"],
                             snapshot |-> [j \in 1 .. Len(children) |-> DefaultBoard],
                             slot |-> [j \in 1 .. Len(children)
                                          |-> [id |-> children[j], state |-> InProgress]]]
    /\ simulation_results' = <<>>
    /\ last' = Call("expand", 1, <<0, 0>>, "Ok", NoAnalysis)
    /\ UNCHANGED <<current_node, rng, err, evaluation, arena_id, current_pool, position,
                   script_at, analyses, self_play_iters, simVars>>

\* simulate(child_id) starts: let mut board = node.board.clone()
TaskBegin(j) ==
    /\ par.phase = "tasks"
    /\ err = "none"
    /\ j \in 1 .. Len(par.task)
    /\ par.task[j] = "waiting"
    /\ par' = [par EXCEPT !.task[j] = "running",
                          !.snapshot[j] = resolve(nodes, par.children[j]).board]
    /\ UNCHANGED <<nodes, current_node, rng, err, evaluation, arena_id, current_pool,
                   position, last, script_at, analyses, self_play_iters,
                   simulation_results, simVars>>

\* simulate(child_id) plays its rollout on the clone and returns; the pair
\* (child_id, state) takes its place among the results
TaskReturn(j) ==
    /\ par.phase = "tasks"
    /\ err = "none"
    /\ j \in 1 .. Len(par.task)
    /\ par.task[j] = "running"
    /\ \E sim \in {simulate(par.snapshot[j], par.seeds[j])} :
           IF sim.panic
           THEN /\ err' = "panic: simulate"
                /\ UNCHANGED par
           ELSE /\ par' = [par EXCEPT !.task[j] = "returned",
                                      !.slot[j] = [id |-> par.children[j],
                                                   state |-> sim.state]]
                /\ UNCHANGED err
    /\ UNCHANGED <<nodes, current_node, rng, evaluation, arena_id, current_pool,
                   position, last, script_at, analyses, self_play_iters,
                   simulation_results, simVars>>

\* collect_into_vec returns; backpropagate(&simulation_results, &player);
\* n_iters -= 1
ParBackpropagate ==
    /\ par.phase = "tasks"
    /\ err = "none"
    /\ Joined(par)
    /\ \E done \in {Backpropagated(
                        backpropagate(nodes, par.slot,
                                      resolve(nodes, current_node).board.next_player),
                        par.slot, par.seeds[Len(par.seeds)])} :
           /\ nodes' = done.nodes
           /\ simulation_results' = done.results
           /\ rng' = done.rng
           /\ err' = done.err
    /\ par' = ParIdle
    /\ analyses' = analyses + 1
    /\ last' = Call("iteration", 1, <<0, 0>>, "Ok", NoAnalysis)
    /\ UNCHANGED <<current_node, evaluation, arena_id, current_pool, position, script_at,
                   self_play_iters, simVars>>

\* a round taken as one step
ParWhole ==
    /\ pc = "analyze"
    /\ par.phase = "idle"
    /\ \E sel \in {select(nodes, current_node)} :
           \/ sel.kind # "Expand"
           \/ Cardinality(get_moves(resolve(nodes, sel.id).board)) > MaxTasks
    /\ PoolIteration

ParNext ==
    \/ ScriptedPlay
    \/ \E seed \in Seeds : PoolFrom(seed)
    \/ PoolAnalyzeBegin
    \/ ParWhole
    \/ ParExpand
    \/ \E j \in 1 .. MaxTasks : TaskBegin(j)
    \/ \E j \in 1 .. MaxTasks : TaskReturn(j)
    \/ ParBackpropagate

SpecPar == PoolInit /\ [][ParNext]_vars

(***************************************************************************)
(* Self-play, the loop of engine_tests::test_engine:                       *)
(*     while !engine.is_game_over() {                                      *)
(*         let ev = engine.analyze(n); engine.step(ev.best_move); }        *)
(***************************************************************************)
\* Engine::is_game_over
is_game_over == game_over(resolve(nodes, current_node).board)

\* Engine::game_state
game_state == check_game_state(resolve(nodes, current_node).board)

\* let mut engine = Engine::init(); the caller passes the same n_iters >= 1
\* in every round
SelfPlayInit ==
    /\ SimIdle
    /\ pc = "selfplay"
    /\ rng \in Seeds
    /\ EngineInit
    /\ self_play_iters \in 1 .. MaxIters
    /\ simulation_results = <<>>
    /\ par = ParIdle

\* the loop test, then engine.analyze(n)
SelfPlayAnalyze ==
    /\ pc = "selfplay"
    /\ err = "none"
    /\ ~evaluation.valid
    /\ IF ~InArena(nodes, current_node)
       THEN /\ err' = "panic: index out of bounds"
            /\ last' = Call("analyze", self_play_iters, <<0, 0>>,
                            "panic: index out of bounds", NoAnalysis)
            /\ UNCHANGED <<nodes, rng, evaluation, arena_id>>
       ELSE /\ ~is_game_over
            /\ \E done \in {analyze(ArenaFrom(resolve(nodes, current_node).board),
                                      root, self_play_iters, rng)} :
                   /\ nodes' = done.nodes
                   /\ rng' = done.rng
                   /\ err' = done.err
                   /\ arena_id' = arena_id + 1
                   /\ evaluation' =
                          IF done.err = "none"
                          THEN [valid |-> TRUE, best_move |-> done.best,
                                pool |-> arena_id + 1,
                                board |-> resolve(done.nodes, done.best).board]
                          ELSE evaluation
                   /\ last' = Call("analyze", self_play_iters, <<0, 0>>,
                                   IF done.err = "none" THEN "Ok" ELSE done.err,
                                   [ran |-> TRUE, node |-> root, n |-> self_play_iters,
                                    best |-> done.best])
    /\ analyses' = analyses + 1
    /\ UNCHANGED <<current_node, current_pool, position, script_at, self_play_iters,
                   simulation_results, par, simVars>>

\* engine.step(ev.best_move)
SelfPlayStep ==
    /\ pc = "selfplay"
    /\ err = "none"
    /\ evaluation.valid
    /\ current_node' = evaluation.best_move
    /\ current_pool' = evaluation.pool
    /\ position' = evaluation.board
    /\ last' = Call("step", 0, <<0, 0>>, "Ok", NoAnalysis)
    /\ evaluation' = NoEvaluation
    /\ UNCHANGED <<nodes, rng, err, arena_id, analyses, script_at, self_play_iters,
                   simulation_results, par, simVars>>

SelfPlayNext == SelfPlayAnalyze \/ SelfPlayStep

\* the guard of SelfPlayAnalyze with the one assignment that needs no
\* analysis.  analyze always comes back (with a handle or a panic), so this
\* action is enabled exactly when SelfPlayAnalyze is, and a step of the loop
\* is a step of it exactly when it is a SelfPlayAnalyze step.
SelfPlayAnalyzeCalled ==
    /\ pc = "selfplay"
    /\ err = "none"
    /\ ~evaluation.valid
    /\ InArena(nodes, current_node) => ~is_game_over
    /\ analyses' = analyses + 1

\* the loop is a sequential program: it goes on while it can take a step
SpecSelfPlay ==
    /\ SelfPlayInit
    /\ [][SelfPlayNext]_vars
    /\ WF_analyses(SelfPlayAnalyzeCalled)
    /\ WF_vars(SelfPlayStep)

(***************************************************************************)
(* The rules of the game, stated on the cells.                             *)
(***************************************************************************)
Cells(k) == {9 * k + i : i \in 0 .. 8}

Lines ==
    {{3 * r + c : c \in 0 .. 2} : r \in 0 .. 2}
        \cup {{3 * r + c : r \in 0 .. 2} : c \in 0 .. 2}
        \cup {{0, 4, 8}, {2, 4, 6}}

OwnCells(b, p) == IF p = "X" THEN b.x ELSE b.o

ThreeInRow(b, p, k) == \E L \in Lines : {9 * k + i : i \in L} \subseteq OwnCells(b, p)

SubFull(b, k) == Cells(k) \subseteq (b.x \cup b.o)

SubDecided(b, k) == ThreeInRow(b, "X", k) \/ ThreeInRow(b, "O", k) \/ SubFull(b, k)

EmptyCells(b) == AllCells \ (b.x \cup b.o)

GlobalLine(S) == \E L \in Lines : L \subseteq S

(***************************************************************************)
(* Claims                                                                  *)
(***************************************************************************)

\* C1: on every board reached by legal moves get_moves is: all 81 cells when
\* there is no last move; else, with target the cell index of last_move, the
\* empty cells of sub-board target when it is undecided, and the empty cells
\* of all undecided sub-boards when target is won or drawn.
C1_GetMoves ==
    IF board.last_move = None
    THEN get_moves(board) = 0 .. 80 /\ Cardinality(get_moves(board)) = 81
    ELSE LET target == board.last_move % 16
         IN  IF target \in 0 .. 8 /\ SubDecided(board, target)
             THEN get_moves(board) = {c \in EmptyCells(board) : ~SubDecided(board, c \div 9)}
             ELSE get_moves(board) = EmptyCells(board) \cap Cells(target)

\* the player is sent to a decided sub-board and chooses among several
\* undecided ones, while a decided sub-board still has empty cells
C1_Witness ==
    /\ board.last_move # None
    /\ SubDecided(board, board.last_move % 16)
    /\ Cardinality({c \div 9 : c \in get_moves(board)}) >= 2
    /\ \E k \in 0 .. 8 : SubDecided(board, k) /\ EmptyCells(board) \cap Cells(k) # {}

\* C2: check_game_state is Won(P) iff the sub-boards marked for P alone hold a
\* row, column or diagonal of the global board; otherwise Draw iff all nine
\* sub-boards are marked; otherwise InProgress.  X holding three in a row in
\* sub-boards 0, 4 and 8 gives Won(X).
C2_GameState ==
    LET s == check_game_state(board)
        xalone == board.gx \ board.go
        oalone == board.go \ board.gx
    IN  /\ (s = Won("X")) <=> GlobalLine(xalone)
        /\ (s = Won("O")) <=> GlobalLine(oalone)
        /\ (s = Draw) <=> (~GlobalLine(xalone) /\ ~GlobalLine(oalone)
                              /\ (board.gx \cup board.go) = 0 .. 8)
        /\ (s = InProgress) <=> (~GlobalLine(xalone) /\ ~GlobalLine(oalone)
                                    /\ (board.gx \cup board.go) # 0 .. 8)
        /\ (\A k \in {0, 4, 8} : ThreeInRow(board, "X", k)) => s = Won("X")

C2_Witness ==
    /\ \A k \in {0, 4, 8} : ThreeInRow(board, "X", k)
    /\ check_game_state(board) = Won("X")
    /\ board.go \ board.gx # {}

\* C3: on every board reached by moves taken from get_moves and applied with
\* unchecked_play, no cell belongs to both x and o.
C3_Disjoint == board.x \cap board.o = {}

C3_Witness ==
    /\ pc = "beyond"
    /\ board.x \cap board.o = {}
    /\ Cardinality(board.x) >= 20
    /\ Cardinality(board.o) >= 20

C4_Marks ==
    /\ board.gx \subseteq 0 .. 8
    /\ board.go \subseteq 0 .. 8
    /\ \A k \in 0 .. 8 :
        /\ (k \in board.gx \ board.go) <=> ThreeInRow(board, "X", k)
        /\ (k \in board.go \ board.gx) <=> ThreeInRow(board, "O", k)
        /\ (k \in board.gx \cap board.go)
                <=> (SubFull(board, k) /\ ~ThreeInRow(board, "X", k) /\ ~ThreeInRow(board, "O", k))
        /\ (k \notin board.gx \cup board.go) <=> ~SubDecided(board, k)

C4_DecidedStaysClosed ==
    \A k \in 0 .. 8 :
        SubDecided(board, k) =>
            /\ board'.x \cap Cells(k) = board.x \cap Cells(k)
            /\ board'.o \cap Cells(k) = board.o \cap Cells(k)

\* C4: for every sub-board k, bit k of gx alone is set iff X has three in a
\* row in it, bit k of go alone iff O has, both bits iff its nine cells are
\* filled with no three in a row, neither iff it is undecided; and no move is
\* placed in a sub-board once it is decided.
C4_SubBoards == [](C4_Marks) /\ [][C4_DecidedStaysClosed]_vars

C4_Witness ==
    /\ \E k \in 0 .. 8 : k \in board.gx \cap board.go
    /\ \E k \in 0 .. 8 : k \in board.gx \ board.go
    /\ \E k \in 0 .. 8 : k \in board.go \ board.gx
    /\ \E k \in 0 .. 8 : SubDecided(board, k) /\ ~SubFull(board, k)
    /\ pc = "simulate"

\* C5: a rollout fills one empty cell per ply, so it makes at most as many
\* plies as the starting board has empty cells (at most 81); it never draws
\* from an empty range; and what it returns is Won or Draw.
C5_Rollout ==
    /\ pc # "panic"
    /\ pc \in {"simulate", "returned"} =>
        /\ plies + Cardinality(EmptyCells(board)) = Cardinality(EmptyCells(sim_start))
        /\ plies <= Cardinality(EmptyCells(sim_start))
        /\ plies <= 81
    /\ pc = "simulate" => (game_over(board) \/ get_moves(board) # {})
    /\ pc = "returned" => result \in {Won("X"), Won("O"), Draw}

C5_Witness ==
    /\ pc = "returned"
    /\ result = Draw
    /\ sim_start.last_move # None
    /\ plies >= 40

\* C6: after any sequence of Engine operations the handle current_node was
\* issued by the pool the Engine holds (or is the root handle, which every
\* pool issues) and resolves in it to the Board of the game position; so
\* Engine.analyze leaves no current_node of the discarded pool behind.
C6_NoDangling == err = "none" => Synced

\* C7: Engine.play((sub, cell)), called with current_node on the game
\* position, returns Ok and moves to the Board after that cell iff the game
\* is not over and sub * 9 + cell is a legal move, expanding the node by one
\* ply when it was unexpanded; in every other case, the game being over
\* included, it returns Err(IllegalMove) and leaves current_node unchanged.
C7_PlayResult ==
    (last.op = "play" /\ last.synced) =>
        IF /\ ~game_over(last.pre_board)
           /\ (last.mve[1] * 9 + last.mve[2]) \in get_moves(last.pre_board)
        THEN /\ last.ret = "Ok"
             /\ err = "none"
             /\ InArena(nodes, current_node)
             /\ resolve(nodes, current_node).board =
                    unchecked_play(last.pre_board, move_from_gl(last.mve[1], last.mve[2]))
             /\ Len(nodes) = last.pre_len
                               + (IF last.analysis.ran
                                  THEN Cardinality(get_moves(last.pre_board))
                                  ELSE 0)
        ELSE /\ last.ret = "Err(IllegalMove)"
             /\ err = "none"
             /\ current_node = last.pre_node

\* C8: after analyze(pool, node, n) with n >= 1 on a non-terminal node the
\* best move returned is a direct child of node, and no child of node has
\* more visits than it.
C8_BestChild ==
    (/\ last.analysis.ran
     /\ last.analysis.n >= 1
     /\ InArena(nodes, last.analysis.node)
     /\ ~game_over(resolve(nodes, last.analysis.node).board)) =>
        LET node == resolve(nodes, last.analysis.node)
            best == last.analysis.best
        IN  /\ best # None
            /\ node.children.is_some
            /\ \E j \in 1 .. Len(node.children.list) : node.children.list[j] = best
            /\ \A j \in 1 .. Len(node.children.list) :
                   resolve(nodes, node.children.list[j]).visits <= resolve(nodes, best).visits

\* two rounds were run, and the one child with the most visits is not the
\* first child
C8_Witness ==
    /\ last.analysis.ran
    /\ last.analysis.n >= 2
    /\ last.analysis.best # None
    /\ LET node == resolve(nodes, last.analysis.node)
           best == last.analysis.best
       IN  /\ ~game_over(node.board)
           /\ best # node.children.list[1]
           /\ \A j \in 1 .. Len(node.children.list) :
                  node.children.list[j] # best =>
                      resolve(nodes, node.children.list[j]).visits
                          < resolve(nodes, best).visits

\* the outcomes of the while loop of analyze with which select_best_child is
\* not reached
LoopErrors == {"hang", "panic: simulate", "panic: unreachable", "panic: index out of bounds"}

\* C9: select_best_child, called on a node of the pool with visits >= 1,
\* returns a child of that node with visits > 0.
C9_VisitedBest ==
    (/\ last.analysis.ran
     /\ last.ret \notin LoopErrors
     /\ InArena(nodes, last.analysis.node)
     /\ resolve(nodes, last.analysis.node).visits >= 1) =>
        LET node == resolve(nodes, last.analysis.node)
            best == last.analysis.best
        IN  /\ best # None
            /\ \E j \in 1 .. Len(node.children.list) : node.children.list[j] = best
            /\ resolve(nodes, best).visits > 0

\* C10: analyze with an iteration count of 0 adds no node to the pool and
\* changes no node's wins, visits or children, and its selection of a best
\* child on the childless node has a defined outcome, not an abort.
C10_ZeroIters ==
    (last.op = "analyze" /\ last.n = 0 /\ last.resolved) =>
        /\ nodes = ArenaFrom(last.pre_board)
        /\ last.ret = "Ok"
        /\ err = "none"

\* the handles in the children list of node number id
ChildrenOf(ns, id) ==
    {resolve(ns, id).children.list[j] : j \in 1 .. Len(resolve(ns, id).children.list)}

\* C11: after any number of completed iterations of analyze, from any node
\* of the pool, every parent / child pair of the tree has
\* visits(parent) >= visits(child).
C11_ParentVisits ==
    \A id \in 0 .. (Len(nodes) - 1) :
        \A c \in ChildrenOf(nodes, id) :
            /\ InArena(nodes, c)
            /\ resolve(nodes, c).parent = id
            /\ resolve(nodes, id).visits >= resolve(nodes, c).visits

\* a tree of depth two with visits at each level, the upper ones larger
C11_Witness ==
    \E id \in 0 .. (Len(nodes) - 1) :
        \E c \in ChildrenOf(nodes, id) :
            \E g \in ChildrenOf(nodes, c) :
                /\ resolve(nodes, g).visits >= 1
                /\ resolve(nodes, c).visits > resolve(nodes, g).visits
                /\ resolve(nodes, id).visits > resolve(nodes, c).visits


\* the loop of self-play has ended: the test of the while loop fails
SelfPlayOver ==
    /\ pc = "selfplay"
    /\ err = "none"
    /\ ~evaluation.valid
    /\ InArena(nodes, current_node)
    /\ is_game_over

\* C12: self-play always finishes.  From Engine::init, repeating analyze(n),
\* n >= 1, then step(best_move) while is_game_over is false: each round
\* advances the current position by exactly one legal ply of the player to
\* move, is_game_over becomes true after at most 81 rounds, and game_state
\* is then Won or Draw.
C12_SelfPlay ==
    /\ [][SelfPlayStep =>
            /\ InArena(nodes', current_node')
            /\ \E i \in get_moves(last.pre_board) :
                   resolve(nodes', current_node').board
                       = unchecked_play(last.pre_board, move_from_index(i))
            /\ resolve(nodes', current_node').board.next_player
                   = other(last.pre_board.next_player)]_vars
    /\ [](err = "none" /\ analyses <= 81)
    /\ [](SelfPlayOver => game_state \in {Won("X"), Won("O"), Draw})
    /\ <>SelfPlayOver

C12_Witness ==
    /\ SelfPlayOver
    /\ analyses >= 17
    /\ Cardinality(resolve(nodes, current_node).board.x
                   \cup resolve(nodes, current_node).board.o) = analyses


\* C13: unchecked_play(board, (sub << 4) | cell), sub and cell in 0..8, makes
\* no legality or turn check.  The Board it returns has bit sub*9+cell added
\* to the set of board.next_player, which is otherwise unchanged; the other
\* player's set is unchanged; the gx and go bits of every other sub-board
\* are unchanged; next_player is flipped; last_move is the move given.  The
\* Board the call was made on is not modified.
C13_UncheckedPlay ==
    [][\A sub \in 0 .. 8 : \A cell \in 0 .. 8 :
          UncheckedPlay(sub, cell) =>
              /\ OwnCells(board', board.next_player)
                     = OwnCells(board, board.next_player) \cup {sub * 9 + cell}
              /\ OwnCells(board', other(board.next_player))
                     = OwnCells(board, other(board.next_player))
              /\ board'.gx \ {sub} = board.gx \ {sub}
              /\ board'.go \ {sub} = board.go \ {sub}
              /\ board'.next_player = other(board.next_player)
              /\ board'.last_move = sub * 16 + cell
              /\ sim_start' = board]_vars

\* a move on a cell the other player holds, in a sub-board that was decided
\* before, has been played
C13_Witness ==
    /\ pc = "unchecked"
    /\ depth >= 1
    /\ board.last_move # None
    /\ ((board.last_move \div 16) * 9 + (board.last_move % 16))
           \in (sim_start.x \cup sim_start.o)
    /\ (board.last_move \div 16) \in (sim_start.gx \cup sim_start.go)
    /\ board.x \cap board.o # {}


\* node number id and the nodes its parent links lead to
RECURSIVE AncestorChain(_, _)
AncestorChain(ns, id) ==
    IF resolve(ns, id).parent = None THEN {id}
    ELSE {id} \cup AncestorChain(ns, resolve(ns, id).parent)

\* C14: in every iteration of analyze, backpropagate processes only the
\* pairs produced in that iteration.  An iteration whose select ends at a
\* terminal node backpropagates exactly one pair, that node with its own
\* state: the visits of the pool root grow by exactly 1 and no node outside
\* the ancestor chain of the terminal node changes, whatever the earlier
\* iterations of the call produced.  An iteration that expands a node
\* backpropagates exactly one pair per new child.
C14_OwnPairs ==
    [][PoolIteration =>
          \E sel \in {select(nodes, current_node)} :
              /\ sel.kind = "NodeId" =>
                     /\ simulation_results'
                            = << [id |-> sel.id,
                                  state |-> check_game_state(resolve(nodes, sel.id).board)] >>
                     /\ resolve(nodes', root).visits = resolve(nodes, root).visits + 1
                     /\ Len(nodes') = Len(nodes)
                     /\ \A id \in 0 .. (Len(nodes) - 1) :
                            id \notin AncestorChain(nodes, sel.id)
                                => resolve(nodes', id) = resolve(nodes, id)
              /\ sel.kind = "Expand" =>
                     /\ Len(simulation_results') = Len(nodes') - Len(nodes)
                     /\ \A j \in 1 .. Len(simulation_results') :
                            simulation_results'[j].id = Len(nodes) + j - 1]_vars


\* C15: whenever select computes a UCT score for a child c of a node p, in
\* any call of analyze, visits(c) >= 1 and visits(p) >= 1.  select ranks
\* the children of nodes that have a children list, so it is enough that in
\* every state select can start from, every node with a children list and
\* each of its children has been visited.
C15_UctVisits ==
    err = "none" =>
        \A id \in 0 .. (Len(nodes) - 1) :
            resolve(nodes, id).children.is_some =>
                /\ resolve(nodes, id).visits >= 1
                /\ \A c \in ChildrenOf(nodes, id) : resolve(nodes, c).visits >= 1

\* select has ranked the children of the node analyze was called on and
\* expanded the child it chose; the next round ranks two levels
C15_Witness ==
    /\ pc = "analyze"
    /\ err = "none"
    /\ analyses < MaxRounds
    /\ \E c \in ChildrenOf(nodes, current_node) :
           /\ resolve(nodes, c).children.is_some
           /\ Len(resolve(nodes, c).children.list) >= 2


\* the j-th smallest element of a set of bit numbers, j from 1
KthBit(moves, j) == CHOOSE i \in moves : Cardinality({m \in moves : m < i}) = j - 1

\* C16: expand of an unexpanded non-terminal node n appends exactly one new
\* node per set bit of get_moves(n.board), in increasing bit order.  The
\* child for bit i has board = n.board with cell i played by
\* n.board.next_player, wins = visits = 0, parent = n and children = None;
\* n.children becomes the list of exactly these new handles; no node that
\* existed has its board, parent, wins or visits changed, and no handle
\* changes meaning.  The round that expands leaves these boards, parents
\* and children lists in the pool.
C16_Expand ==
    [][PoolIteration =>
          \E sel \in {select(nodes, current_node)} :
              sel.kind = "Expand" =>
                  \E ex \in {expand(nodes, sel.id)} :
                  \E moves \in {get_moves(resolve(nodes, sel.id).board)} :
                      /\ Len(ex) = Len(nodes) + Cardinality(moves)
                      /\ \A j \in 1 .. Cardinality(moves) :
                             /\ resolve(ex, Len(nodes) + j - 1).board
                                    = unchecked_play(resolve(nodes, sel.id).board,
                                                     move_from_index(KthBit(moves, j)))
                             /\ OwnCells(resolve(ex, Len(nodes) + j - 1).board,
                                         resolve(nodes, sel.id).board.next_player)
                                    = OwnCells(resolve(nodes, sel.id).board,
                                               resolve(nodes, sel.id).board.next_player)
                                          \cup {KthBit(moves, j)}
                             /\ resolve(ex, Len(nodes) + j - 1).wins = 0
                             /\ resolve(ex, Len(nodes) + j - 1).eps = 0
                             /\ resolve(ex, Len(nodes) + j - 1).visits = 0
                             /\ resolve(ex, Len(nodes) + j - 1).parent = sel.id
                             /\ resolve(ex, Len(nodes) + j - 1).children = NoChildren
                      /\ resolve(ex, sel.id).children
                             = SomeChildren([j \in 1 .. Cardinality(moves)
                                                |-> Len(nodes) + j - 1])
                      /\ \A id \in 0 .. (Len(nodes) - 1) :
                             /\ resolve(ex, id).board = resolve(nodes, id).board
                             /\ resolve(ex, id).parent = resolve(nodes, id).parent
                             /\ resolve(ex, id).wins = resolve(nodes, id).wins
                             /\ resolve(ex, id).eps = resolve(nodes, id).eps
                             /\ resolve(ex, id).visits = resolve(nodes, id).visits
                             /\ id # sel.id
                                    => resolve(ex, id).children = resolve(nodes, id).children
                      /\ Len(nodes') = Len(ex)
                      /\ \A id \in 0 .. (Len(ex) - 1) :
                             /\ resolve(nodes', id).board = resolve(ex, id).board
                             /\ resolve(nodes', id).parent = resolve(ex, id).parent
                             /\ resolve(nodes', id).children = resolve(ex, id).children]_vars

\* a round has expanded a node below the root into two children or more
C16_Witness ==
    /\ pc = "analyze"
    /\ last.op = "iteration"
    /\ Len(nodes) >= last.pre_len + 2
    /\ resolve(nodes, Len(nodes) - 1).parent # root
    /\ resolve(nodes, Len(nodes) - 1).visits = 1


\* C17: in every reachable pool state a node whose board is game over has
\* children = None, and a node is expanded at most once: once its children
\* list is set, no operation on the pool replaces or extends it.
C17_ExpandedOnce ==
    /\ [](\A id \in 0 .. (Len(nodes) - 1) :
              game_over(resolve(nodes, id).board) => resolve(nodes, id).children = NoChildren)
    /\ [][arena_id' = arena_id =>
              \A id \in 0 .. (Len(nodes) - 1) :
                  resolve(nodes, id).children.is_some
                      => /\ InArena(nodes', id)
                         /\ resolve(nodes', id).children = resolve(nodes, id).children]_vars

\* a terminal node has been selected twice, in a pool that went on growing
\* after its root was expanded
C17_Witness ==
    /\ pc = "analyze"
    /\ analyses = MaxRounds
    /\ resolve(nodes, root).children.is_some
    /\ Len(nodes) > Len(resolve(nodes, root).children.list) + 1
    /\ \E id \in 1 .. (Len(nodes) - 1) :
           /\ game_over(resolve(nodes, id).board)
           /\ resolve(nodes, id).visits >= 2


\* C18: within one iteration the parallel simulate tasks, one per child that
\* the preceding expand created, never modify the pool; backpropagate starts
\* only after every task has returned its pair; and for fixed rollout
\* outcomes the pool after the iteration is the same under every
\* interleaving and completion order of the tasks: it is the pool of the
\* round in which the rollouts run one after the other.
C18_Parallel ==
    /\ [][\A j \in 1 .. MaxTasks : (TaskBegin(j) \/ TaskReturn(j)) => nodes' = nodes]_vars
    /\ [][(par.phase = "tasks" /\ nodes' # nodes)
              => \A j \in 1 .. Len(par.task) : par.task[j] = "returned"]_vars
    /\ [][(par.phase = "tasks" /\ par'.phase = "idle") =>
              \E done \in {AnalyzeRound(par.start.nodes, current_node, par.start.results,
                                        par.start.rng)} :
                  /\ nodes' = done.nodes
                  /\ simulation_results' = done.results
                  /\ rng' = done.rng
                  /\ err' = done.err]_vars

\* the last task has returned while the first has not started and the
\* second is running
C18_Witness ==
    /\ par.phase = "tasks"
    /\ Len(par.task) >= 3
    /\ par.task[1] = "waiting"
    /\ par.task[2] = "running"
    /\ par.task[Len(par.task)] = "returned"
    /\ par.slot[Len(par.task)].state # InProgress


\* the effect C19 gives for one pair (n, state) on the pool before, for
\* analyze called on node number called_on
OnePairEffect(before, after, n, state, called_on) ==
    /\ Len(after) = Len(before)
    /\ root \in AncestorChain(before, n)
    /\ \A id \in 0 .. (Len(before) - 1) :
           /\ resolve(after, id).visits
                  = resolve(before, id).visits
                        + (IF id \in AncestorChain(before, n) THEN 1 ELSE 0)
           /\ state \in {Won("X"), Won("O")} =>
                  resolve(after, id).wins
                      = resolve(before, id).wins
                            + (IF /\ id \in AncestorChain(before, n)
                                  /\ state = Won(resolve(before, called_on).board.next_player)
                               THEN 1 ELSE 0)
           /\ id \notin AncestorChain(before, n)
                  => resolve(after, id).wins = resolve(before, id).wins
           /\ resolve(after, id).board = resolve(before, id).board
           /\ resolve(after, id).parent = resolve(before, id).parent
           /\ resolve(after, id).children = resolve(before, id).children

\* the pool a round backpropagates on: after expand in the Expand arm, as
\* it was in the NodeId arm
BeforeBackpropagate(ns, sel) == IF sel.kind = "Expand" THEN expand(ns, sel.id) ELSE ns

C20_HasMove ==
    /\ pc # "panic"
    /\ err \notin {"panic: simulate", "hang"}
    /\ ~game_over(board) => get_moves(board) # {}
    /\ \A id \in 0 .. (Len(nodes) - 1) :
           /\ ~game_over(resolve(nodes, id).board)
                  => get_moves(resolve(nodes, id).board) # {}
           /\ resolve(nodes, id).children.is_some
                  => Len(resolve(nodes, id).children.list) >= 1

\* a rollout is sent to a sub-board that is full, in a game that goes on
C20_Witness ==
    /\ pc = "simulate"
    /\ plies >= 1
    /\ ~game_over(board)
    /\ board.last_move # None
    /\ SubFull(board, board.last_move % 16)
    /\ get_moves(board) # {}


\* C21: Engine.play((sub, cell)) with sub or cell outside 0..8 (any 8-bit
\* values) never matches a legal move: the packing (sub << 4) | cell on 8
\* bits does not let such a pair take the encoding of a legal move, so the
\* call returns Err(IllegalMove) and does not change the current position.
C21_NoAlias ==
    (/\ last.op = "play"
     /\ last.synced
     /\ ~game_over(last.pre_board)
     /\ (last.mve[1] \notin 0 .. 8 \/ last.mve[2] \notin 0 .. 8))
        => /\ last.ret = "Err(IllegalMove)"
           /\ err = "none"
           /\ current_node = last.pre_node
           /\ resolve(nodes, current_node).board = last.pre_board


\* the number of places of the children list of node number id that hold
\* the handle child
Listed(ns, id, child) ==
    Cardinality({j \in 1 .. Len(resolve(ns, id).children.list) :
                     resolve(ns, id).children.list[j] = child})

\* C22: in every reachable pool state the nodes form a tree rooted at index
\* 0: node 0 has no parent; every other node i has a parent p with p < i
\* whose children list contains i exactly once; every handle in any children
\* list refers to an existing node whose parent is the listing node; and
\* child.board.last_move is a legal move of parent.board.
C22_Tree ==
    /\ Len(nodes) >= 1
    /\ resolve(nodes, root).parent = None
    /\ \A i \in 1 .. (Len(nodes) - 1) :
           /\ resolve(nodes, i).parent \in 0 .. (i - 1)
           /\ Listed(nodes, resolve(nodes, i).parent, i) = 1
    /\ \A p \in 0 .. (Len(nodes) - 1) :
           \A c \in ChildrenOf(nodes, p) :
               /\ InArena(nodes, c)
               /\ resolve(nodes, c).parent = p
               /\ \E i \in get_moves(resolve(nodes, p).board) :
                      resolve(nodes, c).board.last_move = move_from_index(i)

\* a pool built from a position of the game in progress holds, after three
\* rounds, a node two levels below its root
C22_Witness ==
    /\ pc = "analyze"
    /\ analyses = MaxRounds
    /\ resolve(nodes, root).board.last_move # None
    /\ \E i \in 1 .. (Len(nodes) - 1) :
           /\ resolve(nodes, i).parent # root
           /\ resolve(nodes, resolve(nodes, i).parent).parent = root
           /\ Len(resolve(nodes, resolve(nodes, i).parent).children.list) >= 2

=============================================================================
